---- MODULE Spec2Model ----
(***************************************************************************)
(* A model of sdf-rs: the record-to-point decomposition (convert.rs,       *)
(* discretize), the conversion loop File::convert, and the session wrapper *)
(* (file.rs: File::open, reindex, read, Drop, IntoIterator, FileIterator). *)
(*                                                                         *)
(* Floating-point quantities are modelled in integer units (times in       *)
(* sampling ticks, lengths in range units); the f64 -> f32 casts are       *)
(* modelled by F32, rounding to a 24-bit significand.  The peak detector   *)
(* is the external crate peakbag: it is modelled by a response table from  *)
(* (detector configuration, waveform) to the ordered peaks it returns.     *)
(* The native library sdfifc is the environment: every return code it can  *)
(* produce is a nondeterministic choice.                                   *)
(***************************************************************************)
EXTENDS Integers, Sequences, FiniteSets, TLC

\* ------------------------------------------------------------------ bounds

\* The longest block list of a record given to discretize.
MaxBlocks == 3
\* The longest file (number of native records) given to File::convert.
MaxRecords == 2

\* ------------------------------------------------------- program constants

HIGH_WIDTH == 2
HIGH_FLOOR == 15
HIGH_CEILING == 255
LOW_WIDTHS == <<3, 2>>
LOW_FLOOR == 15
LOW_CEILINGS == <<250, 255>>
\* 5.0
MIN_HEIGHT_ABOVE_BACKGROUND == 5
\* 0.04, in hundredths
MAX_KURTOSIS == 4
\* the width of `as u8`: values are reduced modulo 2^8
U8_MODULUS == 256
\* the significand of an f32 (`as f32`) holds 24 bits
F32_SIGNIFICAND == 16777216

\* --------------------------------------------------------------- channels

Channels == {"High", "Low", "Saturation", "Reference"}

\* Channel::from_u32: Ok(channel) or Err(InvalidChannel(n))
Channel_from_u32(n) ==
    CASE n = 0 -> [ok |-> TRUE, channel |-> "High", n |-> n]
      [] n = 1 -> [ok |-> TRUE, channel |-> "Low", n |-> n]
      [] n = 2 -> [ok |-> TRUE, channel |-> "Saturation", n |-> n]
      [] n = 3 -> [ok |-> TRUE, channel |-> "Reference", n |-> n]
      [] OTHER -> [ok |-> FALSE, channel |-> "InvalidChannel", n |-> n]

\* ------------------------------------------------------------ conversions

\* usize -> u8 (`as u8`): truncation to the low eight bits
AsU8(n) == n % U8_MODULUS

RECURSIVE F32Ulp(_, _)
\* the spacing of f32 values around magnitude m (a >= 0 integer): the least
\* power of two u with m < 2^24 * u
F32Ulp(m, u) == IF m < F32_SIGNIFICAND * u THEN u ELSE F32Ulp(m, 2 * u)

\* |x| rounded to the nearest multiple of its ulp, ties to even
F32Abs(m) ==
    LET u == F32Ulp(m, 1)
        q == m \div u
        r == m % u
    IN  IF 2 * r < u THEN q * u
        ELSE IF 2 * r > u THEN (q + 1) * u
        ELSE IF q % 2 = 0 THEN q * u ELSE (q + 1) * u

\* f64 -> f32 (`as f32`) on integer-valued quantities
F32(x) == IF x >= 0 THEN F32Abs(x) ELSE 0 - F32Abs(0 - x)

\* ---------------------------------------------------------- peak detector

\* PeakDetector::new(width, floor, ceiling).min_height_above_background(..)
\*     .max_kurtosis(..); no saturation level is declared (the empty set)
PeakDetector_new(width, floor, ceiling) ==
    [width |-> width, floor |-> floor, ceiling |-> ceiling,
     min_height_above_background |-> MIN_HEIGHT_ABOVE_BACKGROUND,
     max_kurtosis |-> MAX_KURTOSIS,
     saturation |-> {}]

\* .saturation(s)
WithSaturation(detector, s) == [detector EXCEPT !.saturation = {s}]

\* The waveforms a sample block can hold, named by what the detector finds
\* in them.
Waveforms == {"flat", "single", "double", "train"}

\* The number of peaks in the pulse train: one more than a u8 can count.
TrainPeaks == U8_MODULUS

Peak(index, amplitude) == [index |-> index, amplitude |-> amplitude]

\* detector.detect_peaks(&block.samples[..]): the ordered peaks (ascending
\* sample index).  "double" holds two pulses, the second of which only a
\* width-2 detector with ceiling 255 accepts.
detect_peaks(detector, samples) ==
    CASE samples = "flat" -> << >>
      [] samples = "single" -> << Peak(10, 100) >>
      [] samples = "double" ->
            IF detector.width = HIGH_WIDTH /\ detector.ceiling = HIGH_CEILING
            THEN << Peak(12, 80), Peak(20, 252) >>
            ELSE << Peak(12, 80) >>
      [] samples = "train" ->
            [k \in 1..TrainPeaks |-> Peak(4 * k, 60)]

\* let high_detector = PeakDetector::new(HIGH_WIDTH, HIGH_FLOOR, HIGH_CEILING)
\*     .min_height_above_background(..).max_kurtosis(..)
high_detector == PeakDetector_new(HIGH_WIDTH, HIGH_FLOOR, HIGH_CEILING)

\* low_detector with the widths and ceilings of a record without High block,
\* whatever the record holds
low_detector_FirstPair(high_blocks) ==
    WithSaturation(PeakDetector_new(LOW_WIDTHS[1], LOW_FLOOR, LOW_CEILINGS[1]),
                   LOW_CEILINGS[2])

\* let (low_width, low_ceiling) = match high_blocks.len() { 0 => (.0, .0),
\*     _ => (.1, .1) }; let low_detector = PeakDetector::new(low_width,
\*     LOW_FLOOR, low_ceiling)...saturation(LOW_CEILINGS.1)
low_detector(high_blocks) ==
    LET low_width == IF Len(high_blocks) = 0 THEN LOW_WIDTHS[1]
                     ELSE LOW_WIDTHS[2]
        low_ceiling == IF Len(high_blocks) = 0 THEN LOW_CEILINGS[1]
                       ELSE LOW_CEILINGS[2]
    IN  WithSaturation(PeakDetector_new(low_width, LOW_FLOOR, low_ceiling),
                       LOW_CEILINGS[2])

\* let reference_detector = high_detector
reference_detector == high_detector

\* ------------------------------------------------------------- discretize

VARIABLES
    \* discretize as a function: its two inputs and what the call produced
    record, file_info, outcome,
    \* File::convert: the position in the function; the native session
    \* handle; whether the index file exists; the native file and its read
    \* cursor; the FileInfo held; the record in hand; the points of it still
    \* to be written; the points the sink has accepted; how convert ends
    pc, handle, indexExists, nativeFile, cursor, info, current, pending, sink,
    result,
    \* histories of the run: the records the iterator has yielded, the
    \* return codes of the fwifc_read and fwifc_close calls made, whether
    \* write_point has failed, whether last_error has panicked
    readLog, reads, closes, sinkFailed, lastErrorFailed,
    \* a session driven through the File API: the number of File::reindex
    \* calls made; whether each fwifc_reindex invocation succeeded; whether
    \* remove_index has removed the index file; what the last call returned
    reindexCalls, reindexes, indexRemoved, returned,
    \* the File values open on the data file, numbered in the order they
    \* were opened; the one the last index call was made on; the one whose
    \* fwifc_reindex built the index file that exists (none if the index
    \* file was there before the session, or is not there)
    files, caller, indexedBy

discretizeVars == <<record, file_info, outcome>>
convertVars == <<pc, handle, indexExists, nativeFile, cursor, info, current,
                 pending, sink, result, readLog, reads, closes, sinkFailed,
                 lastErrorFailed>>
sessionVars == <<reindexCalls, reindexes, indexRemoved, returned, files,
                 caller, indexedBy>>
vars == <<record, file_info, outcome, pc, handle, indexExists, nativeFile,
          cursor, info, current, pending, sink, result, readLog, reads,
          closes, sinkFailed, lastErrorFailed, reindexCalls, reindexes,
          indexRemoved, returned, files, caller, indexedBy>>

\* timestamp without the start of the sample block
timestamp_IndexOnly(peak, block, fi) == peak.index * fi.sampling_time

\* let timestamp = |peak, block| block.time_sosbl + peak.index as f64 *
\*     file_info.sampling_time
timestamp(peak, block, fi) == block.time_sosbl + peak.index * fi.sampling_time

\* (record.direction[2] / record.direction[0]).atan().to_degrees() as f32:
\* kept symbolic, as the pair the angle is computed from
theta(rec) == <<"atan_degrees", rec.direction[3], rec.direction[1]>>

\* Point with the output time counted from the reference peak
Point_TimeSinceReference(rec, fi, block, peak, i, num_target, t_ref) ==
    LET time == timestamp(peak, block, fi)
        range == (fi.v_group \div 2) * (time - t_ref)
    IN  [time |-> time - t_ref - rec.time_sorg + rec.time_external,
         range |-> F32(range),
         theta |-> theta(rec),
         x |-> F32(rec.origin[1] + rec.direction[1] * range),
         y |-> F32(rec.origin[2] + rec.direction[2] * range),
         z |-> F32(rec.origin[3] + rec.direction[3] * range),
         target |-> AsU8(i + 1),
         num_target |-> AsU8(num_target),
         facet |-> rec.facet,
         peak |-> peak,
         high_channel |-> (block.channel = "High")]

\* Point with high_channel telling the low channel (`== Channel::Low`)
Point_HighChannelFromLow(rec, fi, block, peak, i, num_target, t_ref) ==
    LET time == timestamp(peak, block, fi)
        range == (fi.v_group \div 2) * (time - t_ref)
    IN  [time |-> time - rec.time_sorg + rec.time_external,
         range |-> F32(range),
         theta |-> theta(rec),
         x |-> F32(rec.origin[1] + rec.direction[1] * range),
         y |-> F32(rec.origin[2] + rec.direction[2] * range),
         z |-> F32(rec.origin[3] + rec.direction[3] * range),
         target |-> AsU8(i + 1),
         num_target |-> AsU8(num_target),
         facet |-> rec.facet,
         peak |-> peak,
         high_channel |-> (block.channel = "Low")]

\* The Point built from peak number i (0-based) of the num_target peaks of
\* `block`.
Point(rec, fi, block, peak, i, num_target, t_ref) ==
    LET time == timestamp(peak, block, fi)
        range == (fi.v_group \div 2) * (time - t_ref)
    IN  [time |-> time - rec.time_sorg + rec.time_external,
         range |-> F32(range),
         theta |-> theta(rec),
         x |-> F32(rec.origin[1] + rec.direction[1] * range),
         y |-> F32(rec.origin[2] + rec.direction[2] * range),
         z |-> F32(rec.origin[3] + rec.direction[3] * range),
         target |-> AsU8(i + 1),
         num_target |-> AsU8(num_target),
         facet |-> rec.facet,
         peak |-> peak,
         high_channel |-> (block.channel = "High")]

\* The body of the loop over (block, detector), for the block that
\* reference `b` (an index into record.blocks) points to: one entry per
\* peak, holding the Point pushed and, as a history of the call, where it
\* came from: the block, the position `enumerate` gave the peak, the number
\* of peaks detect_peaks returned, and the detector that was run.
BlockPoints(rec, fi, b, detector, t_ref) ==
    LET block == rec.blocks[b]
        peaks == detect_peaks(detector, block.samples)
        num_target == Len(peaks)
    IN  [k \in 1..Len(peaks) |->
            [point |-> Point(rec, fi, block, peaks[k], k - 1, num_target,
                             t_ref),
             source |-> [block |-> b, i |-> k - 1, peaks |-> Len(peaks),
                         detector |-> detector]]]

RECURSIVE ChainPoints(_, _, _, _, _)
\* blocks.iter().zip(repeat(detector)): the entries of the referenced
\* blocks, block after block.
ChainPoints(rec, fi, blocks, detector, t_ref) ==
    IF blocks = << >> THEN << >>
    ELSE BlockPoints(rec, fi, Head(blocks), detector, t_ref)
         \o ChainPoints(rec, fi, Tail(blocks), detector, t_ref)

\* BlocksOfChannel with Saturation blocks pushed to the high list
BlocksOfChannel_SaturationAsHigh(rec, channel) ==
    LET OnChannel(b) ==
            \/ rec.blocks[b].channel = channel
            \/ channel = "High" /\ rec.blocks[b].channel = "Saturation"
    IN  SelectSeq([b \in 1..Len(rec.blocks) |-> b], OnChannel)

\* The references (indices into record.blocks) to the blocks of a channel,
\* in the order the classification loop pushes them.
BlocksOfChannel(rec, channel) ==
    LET OnChannel(b) == rec.blocks[b].channel = channel
    IN  SelectSeq([b \in 1..Len(rec.blocks) |-> b], OnChannel)

\* What a call of discretize produces: Ok(points), with the history of
\* where each point came from; Err(NeedSingleReferencePeak(n)); a panic.
Ok(entries) ==
    [kind |-> "Ok",
     points |-> [j \in 1..Len(entries) |-> entries[j].point],
     sources |-> [j \in 1..Len(entries) |-> entries[j].source],
     n |-> 0]
NeedSingleReferencePeak(n) ==
    [kind |-> "NeedSingleReferencePeak", points |-> << >>, sources |-> << >>,
     n |-> n]
Panic ==
    [kind |-> "Panic", points |-> << >>, sources |-> << >>, n |-> 0]

\* for (block, detector) in low_blocks.iter().zip(repeat(low_detector))
\*     .chain(high_blocks.iter().zip(repeat(high_detector)))
AssemblePoints(rec, fi, low_blocks, for_low, high_blocks, for_high, t_ref) ==
    ChainPoints(rec, fi, low_blocks, for_low, t_ref)
    \o ChainPoints(rec, fi, high_blocks, for_high, t_ref)

\* ReferencePeakCheck with only the empty detection refused (`== 0`)
ReferencePeakCheck_ZeroOnly(reference_peaks) == Len(reference_peaks) = 0

\* if reference_peaks.len() != 1
ReferencePeakCheck(reference_peaks) == Len(reference_peaks) # 1

\* ClassifyPanics without the check for a second Reference block: the first
\* one is kept
ClassifyPanics_NoneOnly(reference_blocks) == Len(reference_blocks) = 0

\* ClassifyPanics with the test in the loop inverted (`is_none()`): the
\* first Reference block panics
ClassifyPanics_InvertedTest(reference_blocks) ==
    Len(reference_blocks) >= 1 \/ Len(reference_blocks) = 0

\* The classification loop and `reference_block.unwrap()`: whether the call
\* panics, on a second Reference block or on none.
ClassifyPanics(reference_blocks) ==
    Len(reference_blocks) > 1 \/ Len(reference_blocks) = 0

\* pub fn discretize(record: &Record, file_info: &FileInfo)
\*     -> Result<Vec<Point>>
discretize(rec, fi) ==
    LET high_blocks == BlocksOfChannel(rec, "High")
        low_blocks == BlocksOfChannel(rec, "Low")
        reference_blocks == BlocksOfChannel(rec, "Reference")
    IN  IF ClassifyPanics(reference_blocks)
        THEN Panic
        ELSE
            LET reference_block == rec.blocks[reference_blocks[1]]
                reference_peaks ==
                    detect_peaks(reference_detector, reference_block.samples)
            IN  IF ReferencePeakCheck(reference_peaks)
                THEN NeedSingleReferencePeak(Len(reference_peaks))
                ELSE
                    LET t_ref == timestamp(reference_peaks[1],
                                           reference_block, fi)
                    IN  Ok(AssemblePoints(rec, fi, low_blocks,
                                          low_detector(high_blocks),
                                          high_blocks, high_detector, t_ref))

\* ------------------------------------------------- inputs of discretize

RECURSIVE SeqsUpTo(_, _)
\* every sequence over S of length at most n
SeqsUpTo(S, n) ==
    IF n = 0 THEN {<< >>}
    ELSE LET shorter == SeqsUpTo(S, n - 1)
         IN  shorter \cup {Append(s, x) : s \in shorter, x \in S}

\* What a sample block holds: its start time and its waveform.
BlockContents ==
    { [time_sosbl |-> 0, samples |-> "flat"],
      [time_sosbl |-> 7, samples |-> "single"],
      [time_sosbl |-> 7, samples |-> "double"],
      [time_sosbl |-> 0, samples |-> "train"] }

Block(channel, content) ==
    [channel |-> channel, time_sosbl |-> content.time_sosbl,
     samples |-> content.samples]

Blocks == {Block(c, content) : c \in Channels, content \in BlockContents}

Record(h, blocks) ==
    [time_sorg |-> h.time_sorg, time_external |-> h.time_external,
     origin |-> h.origin, direction |-> h.direction, facet |-> h.facet,
     blocks |-> blocks]

\* The acquisitions discretize is applied to: the file's FileInfo and the
\* header its records carry.
Acquisitions ==
    { [header |-> [time_sorg |-> 0, time_external |-> 0,
                   origin |-> <<0, 0, 0>>, direction |-> <<1, 0, 0>>,
                   facet |-> 3],
       info |-> [v_group |-> 2, sampling_time |-> 1]],
      [header |-> [time_sorg |-> 5, time_external |-> 100,
                   origin |-> <<F32_SIGNIFICAND + 1, 1, 2>>,
                   direction |-> <<1, 2, 3>>, facet |-> U8_MODULUS + 44],
       info |-> [v_group |-> 6, sampling_time |-> 2]] }

Headers == {a.header : a \in Acquisitions}
FileInfos == {a.info : a \in Acquisitions}

BlockLists == SeqsUpTo(Blocks, MaxBlocks)

Records == {Record(h, bs) : h \in Headers, bs \in BlockLists}

NotCalled ==
    [kind |-> "NotCalled", points |-> << >>, sources |-> << >>, n |-> 0]

\* File::convert at rest: the values its variables keep while discretize is
\* studied on its own.
IdleRecord ==
    Record([time_sorg |-> 0, time_external |-> 0, origin |-> <<0, 0, 0>>,
            direction |-> <<0, 0, 0>>, facet |-> 0], << >>)
IdleInfo == [v_group |-> 0, sampling_time |-> 0]

Running == [kind |-> "Running", error |-> [tag |-> "None", n |-> 0]]

\* What a call of the File API returns: the operation, Ok / Err / Panic, the
\* error, the value of an Ok (for calibration, the table index handed to
\* fwifc_get_calib), the calibration table kind asked for (table and
\* channel), and the native return code the call saw (0 when it made no
\* native call).
Returned(op, kind, error, value, table, channel, code) ==
    [op |-> op, kind |-> kind, error |-> error, value |-> value,
     table |-> table, channel |-> channel, code |-> code]

NoReturn ==
    Returned("none", "None", [tag |-> "None", n |-> 0], 0, "None", "None", 0)

\* No session is driven through the File API.
SessionIdle ==
    /\ reindexCalls = 0
    /\ reindexes = << >>
    /\ indexRemoved = FALSE
    /\ returned = NoReturn
    /\ files = 1
    /\ caller = 1
    /\ indexedBy = {}

ConvertIdle ==
    /\ pc = "idle"
    /\ handle = "null"
    /\ indexExists = FALSE
    /\ nativeFile = [acquisition |-> [header |-> IdleRecord, info |-> IdleInfo],
                     records |-> << >>]
    /\ cursor = 1
    /\ info = IdleInfo
    /\ current = IdleRecord
    /\ pending = << >>
    /\ sink = << >>
    /\ result = Running
    /\ readLog = << >>
    /\ reads = << >>
    /\ closes = << >>
    /\ sinkFailed = FALSE
    /\ lastErrorFailed = FALSE

InitDiscretize ==
    /\ \E a \in Acquisitions, bs \in BlockLists :
          /\ record = Record(a.header, bs)
          /\ file_info = a.info
    /\ outcome = NotCalled
    /\ ConvertIdle
    /\ SessionIdle

\* let points = discretize(record, file_info)
CallDiscretize ==
    /\ outcome = NotCalled
    /\ outcome' = discretize(record, file_info)
    /\ UNCHANGED <<record, file_info>>
    /\ UNCHANGED convertVars
    /\ UNCHANGED sessionVars

NextDiscretize == CallDiscretize

SpecDiscretize == InitDiscretize /\ [][NextDiscretize]_vars

\* ------------------------------------------------------ the native library

\* The return codes of the fwifc_* functions: 0 is success, -1 end of file,
\* 1..6 the documented failures, 7 stands for every undocumented code.
NativeCodes == {-1, 0, 1, 2, 3, 4, 5, 6, 7}
FailureCodes == NativeCodes \ {-1, 0}

NoError == [tag |-> "None", n |-> 0]
Error(tag, n) == [tag |-> tag, n |-> n]

\* SdfError_from_i32 with the arms of codes 3 and 4 exchanged
SdfError_from_i32_ArmsExchanged(code) ==
    CASE code = -1 -> Error("EndOfFile", 0)
      [] code = 0 -> Error("panic", 0)
      [] code = 1 -> Error("BadArg", 0)
      [] code = 2 -> Error("UnsupportedFormat", 0)
      [] code = 3 -> Error("UnknownException", 0)
      [] code = 4 -> Error("MissingIndex", 0)
      [] code = 5 -> Error("NotImplemented", 0)
      [] code = 6 -> Error("Runtime", 0)
      [] OTHER -> Error("UnknownCode", code)

\* SdfError::from_i32, the message apart; code zero is refused with a panic
SdfError_from_i32(code) ==
    CASE code = -1 -> Error("EndOfFile", 0)
      [] code = 0 -> Error("panic", 0)
      [] code = 1 -> Error("BadArg", 0)
      [] code = 2 -> Error("UnsupportedFormat", 0)
      [] code = 3 -> Error("MissingIndex", 0)
      [] code = 4 -> Error("UnknownException", 0)
      [] code = 5 -> Error("NotImplemented", 0)
      [] code = 6 -> Error("Runtime", 0)
      [] OTHER -> Error("UnknownCode", code)

\* The codes for which from_i32 calls last_error() for the message.
CallsLastError(code) == code \in {-1, 1, 2, 3, 4, 5, 6}

\* last_error panics when fwifc_get_last_error fails or the message is no
\* UTF-8 (`message` is FALSE): whether from_i32(code) panics.
FromI32Panics(code, message) == CallsLastError(code) /\ ~message

\* A block as fwifc_read hands it over: the channel is a u32 code.
NativeBlock(code, time_sosbl, samples) ==
    [channel |-> code, time_sosbl |-> time_sosbl, samples |-> samples]

\* The block lists of the native records File::convert is run on: pulses
\* that decompose (with Low, High, Saturation and Reference interleaved),
\* pulses without a single reference peak, pulses without a single Reference
\* block, and a pulse with a channel code the wrapper does not know.
NativeBlockLists ==
    { << NativeBlock(3, 7, "single") >>,
      << NativeBlock(1, 0, "double"), NativeBlock(3, 7, "single"),
         NativeBlock(0, 7, "single") >>,
      << NativeBlock(0, 0, "double"), NativeBlock(2, 0, "double"),
         NativeBlock(3, 7, "single"), NativeBlock(1, 7, "single") >>,
      << NativeBlock(3, 0, "flat"), NativeBlock(1, 0, "double") >>,
      << NativeBlock(3, 0, "double"), NativeBlock(0, 7, "single") >>,
      << NativeBlock(1, 7, "single") >>,
      << NativeBlock(3, 7, "single"), NativeBlock(3, 7, "single") >>,
      << NativeBlock(3, 7, "single"), NativeBlock(4, 7, "single") >> }

\* The files: an acquisition and at most MaxRecords native block lists.
NativeFiles ==
    { [acquisition |-> a, records |-> rs] :
        a \in Acquisitions, rs \in SeqsUpTo(NativeBlockLists, MaxRecords) }

\* The paths File::open is given: one CString::new and to_str accept, one
\* with an interior NUL byte, one that is no UTF-8.
Paths == {"plain", "interior_nul", "not_utf8"}

\* --------------------------------------------------------- how a run ends

ReturnOk == [kind |-> "Ok", error |-> NoError]
ReturnErr(e) == [kind |-> "Err", error |-> e]
Panicked == [kind |-> "Panic", error |-> NoError]
\* a panic while a panic unwinds aborts the process
Aborted == [kind |-> "Abort", error |-> NoError]

\* ---------------------------------------------------------- File::convert

\* sdc_Point with the facet clamped to the range of a u8 where it is cast
sdc_Point_FacetClamped(p) ==
    [time |-> p.time, range |-> p.range, theta |-> p.theta,
     x |-> p.x, y |-> p.y, z |-> p.z,
     amplitude |-> p.peak.amplitude,
     width |-> 1,
     target_type |-> "Peak",
     target |-> p.target,
     num_target |-> p.num_target,
     rg_index |-> 1,
     facet_number |-> IF p.facet < U8_MODULUS THEN p.facet
                      ELSE U8_MODULUS - 1,
     high_channel |-> p.high_channel,
     class_id |-> "None", rho |-> "None", reflectance |-> "None"]

\* The sdc::Point File::convert builds from a Point.
sdc_Point(p) ==
    [time |-> p.time, range |-> p.range, theta |-> p.theta,
     x |-> p.x, y |-> p.y, z |-> p.z,
     amplitude |-> p.peak.amplitude,
     width |-> 1,
     target_type |-> "Peak",
     target |-> p.target,
     num_target |-> p.num_target,
     rg_index |-> 1,
     facet_number |-> AsU8(p.facet),
     high_channel |-> p.high_channel,
     class_id |-> "None", rho |-> "None", reflectance |-> "None"]

DiscretizeIdle ==
    /\ record = IdleRecord
    /\ file_info = IdleInfo
    /\ outcome = NotCalled

\* File::convert(sdf_path, sdc_path) is called: no session is open, the
\* index file may or may not exist.
Init ==
    /\ DiscretizeIdle
    /\ SessionIdle
    /\ pc = "open"
    /\ handle = "null"
    /\ indexExists \in BOOLEAN
    /\ nativeFile \in NativeFiles
    /\ cursor = 1
    /\ info = IdleInfo
    /\ current = IdleRecord
    /\ pending = << >>
    /\ sink = << >>
    /\ result = Running
    /\ readLog = << >>
    /\ reads = << >>
    /\ closes = << >>
    /\ sinkFailed = FALSE
    /\ lastErrorFailed = FALSE

\* The function is left with `r` as its outcome so far; the File, once
\* built, is dropped on the way out.
Leave(r) ==
    /\ result' = r
    /\ pc' = "drop"

\* File::open: CString::new(path)?, fwifc_open, path.to_str()?, Ok(File)
File_open ==
    /\ pc = "open"
    /\ \E path \in Paths, code \in NativeCodes \ {-1}, message \in BOOLEAN :
          IF path = "interior_nul"
          THEN /\ result' = ReturnErr(Error("Nul", 0))
               /\ pc' = "done"
               /\ UNCHANGED <<handle, lastErrorFailed>>
          ELSE IF code # 0
          THEN /\ lastErrorFailed' = FromI32Panics(code, message)
               /\ result' = IF FromI32Panics(code, message) THEN Panicked
                            ELSE ReturnErr(SdfError_from_i32(code))
               /\ pc' = "done"
               /\ UNCHANGED handle
          ELSE IF path = "not_utf8"
          THEN \* the session is open and no File owns it
               /\ handle' = "open"
               /\ result' = ReturnErr(Error("Utf8", 0))
               /\ pc' = "done"
               /\ UNCHANGED lastErrorFailed
          ELSE /\ handle' = "open"
               /\ pc' = "info"
               /\ UNCHANGED <<result, lastErrorFailed>>
    /\ UNCHANGED <<indexExists, nativeFile, cursor, info, current, pending,
                   sink, readLog, reads, closes, sinkFailed>>
    /\ UNCHANGED discretizeVars
    /\ UNCHANGED sessionVars

\* let ref file_info = try!(sdf_file.info())
File_info ==
    /\ pc = "info"
    /\ \E code \in NativeCodes \ {-1}, message \in BOOLEAN, utf8 \in BOOLEAN :
          IF code # 0
          THEN /\ lastErrorFailed' = FromI32Panics(code, message)
               /\ Leave(IF FromI32Panics(code, message) THEN Panicked
                        ELSE ReturnErr(SdfError_from_i32(code)))
               /\ UNCHANGED info
          ELSE IF ~utf8
          THEN /\ Leave(ReturnErr(Error("Utf8", 0)))
               /\ UNCHANGED <<info, lastErrorFailed>>
          ELSE /\ info' = nativeFile.acquisition.info
               /\ pc' = "sink"
               /\ UNCHANGED <<result, lastErrorFailed>>
    /\ UNCHANGED <<handle, indexExists, nativeFile, cursor, current, pending,
                   sink, readLog, reads, closes, sinkFailed>>
    /\ UNCHANGED discretizeVars
    /\ UNCHANGED sessionVars

\* let mut sdc_file = try!(sdc::Writer::from_path(sdc_path))
Writer_from_path ==
    /\ pc = "sink"
    /\ \E created \in BOOLEAN :
          IF created
          THEN pc' = "into_iter" /\ UNCHANGED result
          ELSE Leave(ReturnErr(Error("Sdc", 0)))
    /\ UNCHANGED <<handle, indexExists, nativeFile, cursor, info, current,
                   pending, sink, readLog, reads, closes, sinkFailed,
                   lastErrorFailed>>
    /\ UNCHANGED discretizeVars
    /\ UNCHANGED sessionVars

\* File_indexed knowing only of an index file built through a File value
File_indexed_BuiltByFile == indexedBy # {}

\* File::indexed: the index file exists
File_indexed == indexExists

\* File_into_iter building the iterator without the call of reindex
File_into_iter_WithoutReindex ==
    /\ pc = "into_iter"
    /\ pc' = "next"
    /\ UNCHANGED <<handle, indexExists, nativeFile, cursor, info, current,
                   pending, sink, result, readLog, reads, closes, sinkFailed,
                   lastErrorFailed>>
    /\ UNCHANGED discretizeVars
    /\ UNCHANGED sessionVars

\* sdf_file.into_iter(): self.reindex().unwrap(), where reindex calls
\* fwifc_reindex unless the file is indexed
File_into_iter ==
    /\ pc = "into_iter"
    /\ reindexCalls' = reindexCalls + 1
    /\ IF File_indexed
       THEN /\ pc' = "next"
            /\ UNCHANGED <<indexExists, result, lastErrorFailed, reindexes>>
       ELSE \E code \in NativeCodes \ {-1}, message \in BOOLEAN :
               /\ reindexes' = Append(reindexes, code = 0)
               /\ IF code = 0
                  THEN /\ indexExists' = TRUE
                       /\ pc' = "next"
                       /\ UNCHANGED <<result, lastErrorFailed>>
                  ELSE /\ lastErrorFailed' = FromI32Panics(code, message)
                       /\ Leave(Panicked)
                       /\ UNCHANGED indexExists
    /\ UNCHANGED <<handle, nativeFile, cursor, info, current, pending, sink,
                   readLog, reads, closes, sinkFailed>>
    /\ UNCHANGED discretizeVars
    /\ UNCHANGED <<indexRemoved, returned, files, caller, indexedBy>>

RECURSIVE ReadBlocks_SkipsUnknown(_)
\* ReadBlocks leaving out the blocks whose channel code is unknown
ReadBlocks_SkipsUnknown(native_blocks) ==
    IF native_blocks = << >> THEN [ok |-> TRUE, blocks |-> << >>, n |-> 0]
    ELSE LET block == Head(native_blocks)
             channel == Channel_from_u32(block.channel)
             rest == ReadBlocks_SkipsUnknown(Tail(native_blocks))
         IN  IF ~channel.ok THEN rest
             ELSE [ok |-> TRUE,
                   blocks |-> << [channel |-> channel.channel,
                                  time_sosbl |-> block.time_sosbl,
                                  samples |-> block.samples] >> \o rest.blocks,
                   n |-> 0]

\* The conversion loop of File::read: Ok(blocks), or the first
\* Err(InvalidChannel(n)) of Channel::from_u32.
RECURSIVE ReadBlocks(_)
ReadBlocks(native_blocks) ==
    IF native_blocks = << >> THEN [ok |-> TRUE, blocks |-> << >>, n |-> 0]
    ELSE LET block == Head(native_blocks)
             channel == Channel_from_u32(block.channel)
             rest == ReadBlocks(Tail(native_blocks))
         IN  IF ~channel.ok
             THEN [ok |-> FALSE, blocks |-> << >>, n |-> channel.n]
             ELSE IF ~rest.ok THEN rest
             ELSE [ok |-> TRUE,
                   blocks |-> << [channel |-> channel.channel,
                                  time_sosbl |-> block.time_sosbl,
                                  samples |-> block.samples] >> \o rest.blocks,
                   n |-> 0]

\* What fwifc_read can return at the cursor: a record while there is one
\* (0), end of file after the last (-1), a failure at any time.
ReadCodes ==
    (IF cursor <= Len(nativeFile.records) THEN {0} ELSE {-1})
    \cup FailureCodes

\* FileIterator_next with every Err of read taken for the end (`Err(_) =>
\* None`)
FileIterator_next_AnyErrorEnds ==
    /\ pc = "next"
    /\ \E code \in ReadCodes, message \in BOOLEAN :
          /\ reads' = Append(reads, code)
          /\ IF code # 0
             THEN /\ lastErrorFailed' = FromI32Panics(code, message)
                  /\ Leave(IF ~FromI32Panics(code, message)
                           THEN ReturnOk
                           ELSE Panicked)
                  /\ UNCHANGED <<cursor, current, readLog>>
             ELSE LET read == ReadBlocks(nativeFile.records[cursor])
                  IN  /\ cursor' = cursor + 1
                      /\ UNCHANGED lastErrorFailed
                      /\ IF read.ok
                         THEN /\ current' =
                                    Record(nativeFile.acquisition.header,
                                           read.blocks)
                              /\ readLog' = Append(readLog, current')
                              /\ pc' = "discretize"
                              /\ UNCHANGED result
                         ELSE Leave(ReturnOk)
                              /\ UNCHANGED <<current, readLog>>
    /\ UNCHANGED <<handle, indexExists, nativeFile, info, pending, sink,
                   closes, sinkFailed>>
    /\ UNCHANGED discretizeVars
    /\ UNCHANGED sessionVars

\* FileIterator::next, on self.file.read(): Some(record), None on
\* Err(EndOfFile), a panic on any other error (and when read itself panics,
\* building its error)
FileIterator_next ==
    /\ pc = "next"
    /\ \E code \in ReadCodes, message \in BOOLEAN :
          /\ reads' = Append(reads, code)
          /\ IF code # 0
             THEN /\ lastErrorFailed' = FromI32Panics(code, message)
                  /\ Leave(IF code = -1 /\ ~FromI32Panics(code, message)
                           THEN ReturnOk   \* None: the loop ends
                           ELSE Panicked)
                  /\ UNCHANGED <<cursor, current, readLog>>
             ELSE LET read == ReadBlocks(nativeFile.records[cursor])
                  IN  /\ cursor' = cursor + 1
                      /\ UNCHANGED lastErrorFailed
                      /\ IF read.ok
                         THEN /\ current' =
                                    Record(nativeFile.acquisition.header,
                                           read.blocks)
                              /\ readLog' = Append(readLog, current')
                              /\ pc' = "discretize"
                              /\ UNCHANGED result
                         ELSE Leave(Panicked)
                              /\ UNCHANGED <<current, readLog>>
    /\ UNCHANGED <<handle, indexExists, nativeFile, info, pending, sink,
                   closes, sinkFailed>>
    /\ UNCHANGED discretizeVars
    /\ UNCHANGED sessionVars

\* Convert_discretize without the arm that skips: NeedSingleReferencePeak
\* is returned like any other error
Convert_discretize_ReturnsSkipError ==
    /\ pc = "discretize"
    /\ LET r == discretize(current, info)
       IN  CASE r.kind = "Ok" ->
                 /\ pending' = r.points
                 /\ pc' = IF r.points = << >> THEN "next" ELSE "write"
                 /\ UNCHANGED result
             [] r.kind = "NeedSingleReferencePeak" ->
                 /\ Leave(ReturnErr(Error("NeedSingleReferencePeak", r.n)))
                 /\ UNCHANGED pending
             [] OTHER ->
                 Leave(Panicked) /\ UNCHANGED pending
    /\ UNCHANGED <<handle, indexExists, nativeFile, cursor, info, current,
                   sink, readLog, reads, closes, sinkFailed, lastErrorFailed>>
    /\ UNCHANGED discretizeVars
    /\ UNCHANGED sessionVars

\* let points = match discretize(&record, file_info) { Ok(points) => points,
\*     Err(NeedSingleReferencePeak(_)) => continue, Err(err) => return Err }
Convert_discretize ==
    /\ pc = "discretize"
    /\ LET r == discretize(current, info)
       IN  CASE r.kind = "Ok" ->
                 /\ pending' = r.points
                 /\ pc' = IF r.points = << >> THEN "next" ELSE "write"
                 /\ UNCHANGED result
             [] r.kind = "NeedSingleReferencePeak" ->
                 /\ pc' = "next"
                 /\ UNCHANGED <<pending, result>>
             [] OTHER ->
                 Leave(Panicked) /\ UNCHANGED pending
    /\ UNCHANGED <<handle, indexExists, nativeFile, cursor, info, current,
                   sink, readLog, reads, closes, sinkFailed, lastErrorFailed>>
    /\ UNCHANGED discretizeVars
    /\ UNCHANGED sessionVars

\* Writer_write_point taking the points from the back of the list
Writer_write_point_LastFirst ==
    /\ pc = "write"
    /\ \E written \in BOOLEAN :
          IF written
          THEN /\ sink' = Append(sink, sdc_Point(pending[Len(pending)]))
               /\ pending' = SubSeq(pending, 1, Len(pending) - 1)
               /\ pc' = IF Len(pending) = 1 THEN "next" ELSE "write"
               /\ UNCHANGED <<result, sinkFailed>>
          ELSE /\ sinkFailed' = TRUE
               /\ Leave(ReturnErr(Error("Sdc", 0)))
               /\ UNCHANGED <<sink, pending>>
    /\ UNCHANGED <<handle, indexExists, nativeFile, cursor, info, current,
                   readLog, reads, closes, lastErrorFailed>>
    /\ UNCHANGED discretizeVars
    /\ UNCHANGED sessionVars

\* Writer_write_point with the result of write_point dropped (no try!): the
\* loop goes on after a failure
Writer_write_point_IgnoresFailure ==
    /\ pc = "write"
    /\ \E written \in BOOLEAN :
          /\ sink' = IF written THEN Append(sink, sdc_Point(Head(pending)))
                     ELSE sink
          /\ sinkFailed' = (sinkFailed \/ ~written)
          /\ pending' = Tail(pending)
          /\ pc' = IF Tail(pending) = << >> THEN "next" ELSE "write"
          /\ UNCHANGED result
    /\ UNCHANGED <<handle, indexExists, nativeFile, cursor, info, current,
                   readLog, reads, closes, lastErrorFailed>>
    /\ UNCHANGED discretizeVars
    /\ UNCHANGED sessionVars

\* for p in points { ...; try!(sdc_file.write_point(point)); }
Writer_write_point ==
    /\ pc = "write"
    /\ \E written \in BOOLEAN :
          IF written
          THEN /\ sink' = Append(sink, sdc_Point(Head(pending)))
               /\ pending' = Tail(pending)
               /\ pc' = IF Tail(pending) = << >> THEN "next" ELSE "write"
               /\ UNCHANGED <<result, sinkFailed>>
          ELSE /\ sinkFailed' = TRUE
               /\ Leave(ReturnErr(Error("Sdc", 0)))
               /\ UNCHANGED <<sink, pending>>
    /\ UNCHANGED <<handle, indexExists, nativeFile, cursor, info, current,
                   readLog, reads, closes, lastErrorFailed>>
    /\ UNCHANGED discretizeVars
    /\ UNCHANGED sessionVars

\* impl Drop for File: fwifc_close(self.handle), a panic if it fails (also
\* when from_i32 panics building the message)
File_drop ==
    /\ pc = "drop"
    /\ handle' = "closed"
    /\ pc' = "done"
    /\ \E code \in NativeCodes \ {-1} :
          /\ closes' = Append(closes, code)
          /\ result' = IF code = 0 THEN result
                       ELSE IF result.kind = "Panic" THEN Aborted
                       ELSE Panicked
    /\ UNCHANGED <<indexExists, nativeFile, cursor, info, current, pending,
                   sink, readLog, reads, sinkFailed, lastErrorFailed>>
    /\ UNCHANGED discretizeVars
    /\ UNCHANGED sessionVars

Next ==
    \/ File_open
    \/ File_info
    \/ Writer_from_path
    \/ File_into_iter
    \/ FileIterator_next
    \/ Convert_discretize
    \/ Writer_write_point
    \/ File_drop

Spec == Init /\ [][Next]_vars

\* ------------------------------------------------- the File API, call by call

\* sdftry!(expr): 0 goes on; any other code returns Err(from_i32(code)),
\* unless from_i32 panics building the error
sdftry(code, message) ==
    IF code = 0 THEN ReturnOk
    ELSE IF FromI32Panics(code, message) THEN Panicked
    ELSE ReturnErr(SdfError_from_i32(code))

\* The longest run of File::reindex calls in one session.
MaxReindexCalls == 2

\* The block lists of the native records of a session: one with the four
\* channel codes, one with two unknown codes among known ones.
SessionBlockLists ==
    { << NativeBlock(1, 0, "double"), NativeBlock(3, 7, "single"),
         NativeBlock(0, 7, "single"), NativeBlock(2, 0, "flat") >>,
      << NativeBlock(3, 7, "single"), NativeBlock(7, 0, "flat"),
         NativeBlock(2, 0, "flat"), NativeBlock(5, 0, "flat") >> }

\* The files of a session; the File API hands the header through untouched,
\* so one acquisition stands for all.
SessionFiles ==
    { [acquisition |-> a, records |-> rs] :
        a \in {b \in Acquisitions : b.header.time_sorg = 0},
        rs \in SeqsUpTo(SessionBlockLists, MaxRecords) }

CalibrationTableKinds ==
    { [table |-> t, channel |-> c] : t \in {"Amplitude", "Range"},
                                     c \in Channels }

\* as_u16 with the Range tables numbered from 1 like the Low amplitude table
CalibrationTableKind_as_u16_RangeFromOne(kind) ==
    CASE kind.channel = "High" ->
            [ok |-> TRUE, value |-> IF kind.table = "Amplitude" THEN 0 ELSE 1,
             channel |-> "None"]
      [] kind.channel = "Low" ->
            [ok |-> TRUE, value |-> IF kind.table = "Amplitude" THEN 1 ELSE 2,
             channel |-> "None"]
      [] OTHER -> [ok |-> FALSE, value |-> 0, channel |-> kind.channel]

\* CalibrationTableKind::as_u16: Ok(u16) or
\* Err(NoCalibrationTableForChannel(channel))
CalibrationTableKind_as_u16(kind) ==
    CASE kind.table = "Amplitude" ->
            (CASE kind.channel = "High" ->
                     [ok |-> TRUE, value |-> 0, channel |-> "None"]
               [] kind.channel = "Low" ->
                     [ok |-> TRUE, value |-> 1, channel |-> "None"]
               [] OTHER ->
                     [ok |-> FALSE, value |-> 0, channel |-> kind.channel])
      [] kind.table = "Range" ->
            (CASE kind.channel = "High" ->
                     [ok |-> TRUE, value |-> 2, channel |-> "None"]
               [] kind.channel = "Low" ->
                     [ok |-> TRUE, value |-> 3, channel |-> "None"]
               [] OTHER ->
                     [ok |-> FALSE, value |-> 0, channel |-> kind.channel])

\* File::open has returned Ok(File): the session is open at its first
\* record, the index file may or may not exist.
InitSession ==
    /\ DiscretizeIdle
    /\ SessionIdle
    /\ pc = "session"
    /\ handle = "open"
    /\ indexExists \in BOOLEAN
    /\ nativeFile \in SessionFiles
    /\ cursor = 1
    /\ info = IdleInfo
    /\ current = IdleRecord
    /\ pending = << >>
    /\ sink = << >>
    /\ result = Running
    /\ readLog = << >>
    /\ reads = << >>
    /\ closes = << >>
    /\ sinkFailed = FALSE
    /\ lastErrorFailed = FALSE

\* What a call on the File returns for the outcome `r` of its sdftry!.
ReturnedFrom(op, r, value, code) ==
    Returned(op, r.kind, r.error, IF r.kind = "Ok" THEN value ELSE 0, "None",
             "None", code)

\* The call is over: a panic unwinds the caller and ends the session, the
\* drop of the File pending (File_drop, as in File::convert); after Ok or Err
\* the session goes on.
Resume(r) ==
    IF r.kind = "Panic" THEN Leave(Panicked) ELSE UNCHANGED <<pc, result>>

\* File_reindex without the test of indexed()
File_reindex_Unconditional ==
    /\ pc = "session"
    /\ reindexCalls < MaxReindexCalls
    /\ reindexCalls' = reindexCalls + 1
    /\ \E f \in 1..files, code \in NativeCodes \ {-1}, message \in BOOLEAN :
          LET r == sdftry(code, message)
          IN  /\ caller' = f
              /\ indexedBy' = IF code = 0 THEN {f} ELSE indexedBy
              /\ reindexes' = Append(reindexes, code = 0)
              /\ indexExists' = (indexExists \/ code = 0)
              /\ lastErrorFailed' = FromI32Panics(code, message)
              /\ returned' = ReturnedFrom("reindex", r, 0, code)
              /\ Resume(r)
    /\ UNCHANGED <<handle, nativeFile, cursor, info, current, pending, sink,
                   readLog, reads, closes, sinkFailed, indexRemoved, files>>
    /\ UNCHANGED discretizeVars

\* File::reindex: if !self.indexed() { sdftry!(fwifc_reindex(self.handle)) }
\* Ok(()); a successful fwifc_reindex leaves the index file in place
File_reindex ==
    /\ pc = "session"
    /\ reindexCalls < MaxReindexCalls
    /\ reindexCalls' = reindexCalls + 1
    /\ \E f \in 1..files :
       /\ caller' = f
       /\ IF File_indexed
          THEN /\ returned' = ReturnedFrom("reindex", ReturnOk, 0, 0)
               /\ UNCHANGED <<indexExists, reindexes, lastErrorFailed, pc,
                              result, indexedBy>>
          ELSE \E code \in NativeCodes \ {-1}, message \in BOOLEAN :
               LET r == sdftry(code, message)
               IN  /\ indexedBy' = IF code = 0 THEN {f} ELSE indexedBy
                   /\ reindexes' = Append(reindexes, code = 0)
                   /\ indexExists' = (code = 0)
                   /\ lastErrorFailed' = FromI32Panics(code, message)
                   /\ returned' = ReturnedFrom("reindex", r, 0, code)
                   /\ Resume(r)
    /\ UNCHANGED <<handle, nativeFile, cursor, info, current, pending, sink,
                   readLog, reads, closes, sinkFailed, indexRemoved, files>>
    /\ UNCHANGED discretizeVars

\* File::remove_index: remove_file(&self.index_path), its error converted
File_remove_index ==
    /\ pc = "session"
    /\ \E f \in 1..files, removed \in BOOLEAN :
          /\ caller' = f
          /\ IF indexExists /\ removed
             THEN /\ indexExists' = FALSE
                  /\ indexRemoved' = TRUE
                  /\ indexedBy' = {}
                  /\ returned' = ReturnedFrom("remove_index", ReturnOk, 0, 0)
             ELSE /\ returned' = ReturnedFrom("remove_index",
                                              ReturnErr(Error("Io", 0)), 0, 0)
                  /\ UNCHANGED <<indexExists, indexRemoved, indexedBy>>
    /\ UNCHANGED <<pc, handle, nativeFile, cursor, info, current, pending,
                   sink, result, readLog, reads, closes, sinkFailed,
                   lastErrorFailed, reindexCalls, reindexes, files>>
    /\ UNCHANGED discretizeVars

\* File::read: sdftry!(fwifc_read(..)), then the blocks converted one by
\* one with try!(Channel::from_u32(block.channel)), then Ok(Record)
File_read ==
    /\ pc = "session"
    /\ \E code \in ReadCodes, message \in BOOLEAN :
          LET r == sdftry(code, message)
          IN  IF code # 0
              THEN /\ lastErrorFailed' = FromI32Panics(code, message)
                   /\ returned' = ReturnedFrom("read", r, 0, code)
                   /\ Resume(r)
                   /\ UNCHANGED <<cursor, current, readLog>>
              ELSE LET read == ReadBlocks(nativeFile.records[cursor])
                   IN  /\ cursor' = cursor + 1
                       /\ UNCHANGED <<lastErrorFailed, pc, result>>
                       /\ IF read.ok
                          THEN /\ current' =
                                     Record(nativeFile.acquisition.header,
                                            read.blocks)
                               /\ readLog' = Append(readLog, current')
                               /\ returned' =
                                     ReturnedFrom("read", ReturnOk, 0, 0)
                          ELSE /\ returned' =
                                     ReturnedFrom("read",
                                         ReturnErr(Error("InvalidChannel",
                                                         read.n)), 0, 0)
                               /\ UNCHANGED <<current, readLog>>
    /\ UNCHANGED <<handle, indexExists, nativeFile, info, pending, sink,
                   reads, closes, sinkFailed, reindexCalls, reindexes,
                   indexRemoved, files, caller, indexedBy>>
    /\ UNCHANGED discretizeVars

\* File_tell counting the records from zero
File_tell_FromZero ==
    /\ pc = "session"
    /\ \E code \in NativeCodes \ {-1}, message \in BOOLEAN :
          LET r == sdftry(code, message)
          IN  /\ lastErrorFailed' = FromI32Panics(code, message)
              /\ returned' = ReturnedFrom("tell", r, cursor - 1, code)
              /\ Resume(r)
    /\ UNCHANGED <<handle, indexExists, nativeFile, cursor, info, current,
                   pending, sink, readLog, reads, closes, sinkFailed,
                   reindexCalls, reindexes, indexRemoved, files, caller,
                   indexedBy>>
    /\ UNCHANGED discretizeVars

\* File::tell: sdftry!(fwifc_tell(self.handle, &mut index)); Ok(index),
\* where fwifc_tell gives the index of the next record to be read
File_tell ==
    /\ pc = "session"
    /\ \E code \in NativeCodes \ {-1}, message \in BOOLEAN :
          LET r == sdftry(code, message)
          IN  /\ lastErrorFailed' = FromI32Panics(code, message)
              /\ returned' = ReturnedFrom("tell", r, cursor, code)
              /\ Resume(r)
    /\ UNCHANGED <<handle, indexExists, nativeFile, cursor, info, current,
                   pending, sink, readLog, reads, closes, sinkFailed,
                   reindexCalls, reindexes, indexRemoved, files, caller,
                   indexedBy>>
    /\ UNCHANGED discretizeVars

\* File::calibration(kind): sdftry!(fwifc_get_calib(self.handle,
\* try!(kind.as_u16()), ..)); the value returned records the table index
\* handed to fwifc_get_calib
File_calibration ==
    /\ pc = "session"
    /\ \E kind \in CalibrationTableKinds :
          LET table == CalibrationTableKind_as_u16(kind)
          IN  IF ~table.ok
              THEN /\ returned' =
                         Returned("calibration", "Err",
                                  Error("NoCalibrationTableForChannel", 0),
                                  0, kind.table, table.channel, 0)
                   /\ UNCHANGED <<lastErrorFailed, pc, result>>
              ELSE \E code \in NativeCodes \ {-1}, message \in BOOLEAN :
                      LET r == sdftry(code, message)
                      IN  /\ lastErrorFailed' = FromI32Panics(code, message)
                          /\ returned' =
                                Returned("calibration", r.kind, r.error,
                                         table.value, kind.table,
                                         kind.channel, code)
                          /\ Resume(r)
    /\ UNCHANGED <<handle, indexExists, nativeFile, cursor, info, current,
                   pending, sink, readLog, reads, closes, sinkFailed,
                   reindexCalls, reindexes, indexRemoved, files, caller,
                   indexedBy>>
    /\ UNCHANGED discretizeVars

\* SdfError::from_i32(code), called by the user of the library: the error,
\* or a panic (code zero, or last_error panicking)
Error_from_i32 ==
    /\ pc = "session"
    /\ \E code \in NativeCodes, message \in BOOLEAN :
          LET r == IF code = 0 \/ FromI32Panics(code, message) THEN Panicked
                   ELSE ReturnErr(SdfError_from_i32(code))
          IN  /\ lastErrorFailed' = FromI32Panics(code, message)
              /\ returned' = ReturnedFrom("from_i32", r, 0, code)
              /\ Resume(r)
    /\ UNCHANGED <<handle, indexExists, nativeFile, cursor, info, current,
                   pending, sink, readLog, reads, closes, sinkFailed,
                   reindexCalls, reindexes, indexRemoved, files, caller,
                   indexedBy>>
    /\ UNCHANGED discretizeVars

\* The most File values open on the data file at once.
MaxFiles == 2

\* File::open on the path of the session once more: the path is the one
\* that opened before, so only fwifc_open can fail; the new File has the
\* same index_path
File_open_again ==
    /\ pc = "session"
    /\ files < MaxFiles
    /\ \E code \in NativeCodes \ {-1}, message \in BOOLEAN :
          LET r == sdftry(code, message)
          IN  /\ files' = IF code = 0 THEN files + 1 ELSE files
              /\ lastErrorFailed' = FromI32Panics(code, message)
              /\ returned' = ReturnedFrom("open", r, 0, code)
              /\ Resume(r)
    /\ UNCHANGED <<handle, indexExists, nativeFile, cursor, info, current,
                   pending, sink, readLog, reads, closes, sinkFailed,
                   reindexCalls, reindexes, indexRemoved, caller, indexedBy>>
    /\ UNCHANGED discretizeVars

\* file.indexed(), called on any of the open File values; the boolean is
\* returned as "True" or "False"
CallIndexed ==
    /\ pc = "session"
    /\ \E f \in 1..files :
          /\ caller' = f
          /\ returned' = Returned("indexed",
                                  IF File_indexed THEN "True" ELSE "False",
                                  NoError, 0, "None", "None", 0)
    /\ UNCHANGED <<pc, handle, indexExists, nativeFile, cursor, info, current,
                   pending, sink, result, readLog, reads, closes, sinkFailed,
                   lastErrorFailed, reindexCalls, reindexes, indexRemoved,
                   files, indexedBy>>
    /\ UNCHANGED discretizeVars

\* The index file seen and changed through several File values.
NextIndex ==
    \/ File_open_again
    \/ File_reindex
    \/ File_remove_index
    \/ CallIndexed

SpecIndex == InitSession /\ [][NextIndex]_vars

\* A session of index handling, reads and tells.
NextSession ==
    \/ File_reindex
    \/ File_remove_index
    \/ File_read
    \/ File_tell

SpecSession == InitSession /\ [][NextSession]_vars

\* The conversions of the library applied to every input: calibration
\* tables asked of an open file, error codes turned into errors.
NextConversions ==
    \/ File_calibration
    \/ Error_from_i32

SpecConversions == InitSession /\ [][NextConversions]_vars

\* ================================================================ claims

Last(seq) == seq[Len(seq)]

IsPrefix(a, b) ==
    /\ Len(a) <= Len(b)
    /\ \A j \in 1..Len(a) : a[j] = b[j]

\* The number of Reference blocks of a record.
ReferenceCount(rec) ==
    Cardinality({b \in 1..Len(rec.blocks) :
                    rec.blocks[b].channel = "Reference"})

\* The peaks detection yields on the (first) Reference block of a record.
ReferencePeaks(rec) ==
    LET b == CHOOSE c \in 1..Len(rec.blocks) :
                /\ rec.blocks[c].channel = "Reference"
                /\ \A d \in 1..(c - 1) : rec.blocks[d].channel # "Reference"
    IN  detect_peaks(PeakDetector_new(HIGH_WIDTH, HIGH_FLOOR, HIGH_CEILING),
                     rec.blocks[b].samples)

HasChannel(rec, channel) ==
    \E b \in 1..Len(rec.blocks) : rec.blocks[b].channel = channel

\* The record File::read builds from the k-th native record of the file.
RecordAt(k) ==
    Record(nativeFile.acquisition.header,
           ReadBlocks(nativeFile.records[k]).blocks)

RECURSIVE MapSdc(_)
MapSdc(points) ==
    IF points = << >> THEN << >>
    ELSE << sdc_Point(Head(points)) >> \o MapSdc(Tail(points))

RECURSIVE Expected(_, _)
\* The points of the records of `log`, in order: those of discretize for a
\* record that decomposes, none for any other.
Expected(log, fi) ==
    IF log = << >> THEN << >>
    ELSE LET r == discretize(Head(log), fi)
         IN  (IF r.kind = "Ok" THEN MapSdc(r.points) ELSE << >>)
             \o Expected(Tail(log), fi)

\* C1: every session fwifc_open has produced is closed by fwifc_close exactly
\* once by the time File::convert is left, on every exit path, and never
\* twice.
C1_HandleClosedExactlyOnce ==
    /\ Len(closes) <= 1
    /\ pc = "done" => Len(closes) = (IF handle = "null" THEN 0 ELSE 1)

\* C2: in every point of a call, 1 <= target <= num_target, and num_target is
\* the number of peaks the detector returned for the point's source block.
C2_TargetWithinNumTarget ==
    outcome.kind = "Ok" =>
        \A j \in 1..Len(outcome.points) :
            /\ 1 <= outcome.points[j].target
            /\ outcome.points[j].target <= outcome.points[j].num_target
            /\ outcome.points[j].num_target = outcome.sources[j].peaks

\* C3: a record for which discretize returns NeedSingleReferencePeak adds no
\* point to the sink and does not end the run: the next record is read;
\* convert never returns that error, and returns Ok(()) once end of file is
\* read and the session closes.
C3_SkipAndContinue ==
    /\ [][(pc = "discretize"
           /\ discretize(current, info).kind = "NeedSingleReferencePeak")
          => (/\ pc' = "next"
              /\ sink' = sink
              /\ pending' = << >>
              /\ result' = Running)]_vars
    /\ [](result.error.tag # "NeedSingleReferencePeak")
    /\ []((pc = "done" /\ reads # << >> /\ Last(reads) = -1
           /\ ~lastErrorFailed /\ closes = << 0 >>) => result = ReturnOk)

C3_Witness ==
    /\ pc = "done"
    /\ result = ReturnOk
    /\ sink # << >>
    /\ \E k \in 1..(Len(readLog) - 1) :
          discretize(readLog[k], info).kind = "NeedSingleReferencePeak"

\* C4: the records are read once each, in file order from the first; the
\* points written are, in read order, those of discretize for the records
\* that decompose, whatever happens to the other records.
C4_SinkIsConcatenation ==
    /\ \A k \in 1..Len(readLog) : readLog[k] = RecordAt(k)
    /\ IsPrefix(sink, Expected(readLog, info))
    /\ pc = "next" => sink = Expected(readLog, info)
    /\ (pc = "done" /\ result = ReturnOk) =>
          /\ Len(readLog) = Len(nativeFile.records)
          /\ sink = Expected(readLog, info)

C4_Witness ==
    /\ pc = "done"
    /\ result = ReturnOk
    /\ Len(readLog) = 2
    /\ discretize(readLog[1], info).kind = "Ok"
    /\ discretize(readLog[2], info).kind = "Ok"
    /\ Len(sink) > Len(discretize(readLog[1], info).points)
    /\ discretize(readLog[1], info).points # << >>

\* C5: with exactly one Reference block whose detection yields n # 1 peaks,
\* discretize returns Err(NeedSingleReferencePeak(n)) and no point.
C5_NeedSingleReferencePeak ==
    (/\ outcome # NotCalled
     /\ ReferenceCount(record) = 1
     /\ Len(ReferencePeaks(record)) # 1)
    => outcome = NeedSingleReferencePeak(Len(ReferencePeaks(record)))

C5_Witness ==
    /\ outcome.kind = "NeedSingleReferencePeak"
    /\ outcome.n > 1
    /\ HasChannel(record, "Low")
    /\ HasChannel(record, "High")

\* C6: with no Reference block, or with two or more, discretize panics: it
\* returns neither Ok nor NeedSingleReferencePeak.
C6_PanicsWithoutSingleReferenceBlock ==
    (outcome # NotCalled /\ ReferenceCount(record) # 1) => outcome = Panic

C6_Witness ==
    /\ outcome = Panic
    /\ ReferenceCount(record) >= 2
    /\ HasChannel(record, "Low")

\* How the points of a call are ordered, the target numbers apart: the
\* points of Low blocks before those of High blocks, the blocks of a channel
\* in record order, the peaks of a block in the detector's order.
PointsOrdered ==
    outcome.kind = "Ok" =>
        LET src == outcome.sources
            channel(j) == record.blocks[src[j].block].channel
        IN  /\ \A j \in 1..Len(src) : channel(j) \in {"Low", "High"}
            /\ \A j \in 1..(Len(src) - 1) :
                  /\ channel(j) = "High" => channel(j + 1) = "High"
                  /\ channel(j) = channel(j + 1)
                        => src[j].block <= src[j + 1].block
                  /\ src[j].block = src[j + 1].block
                        => /\ src[j + 1].i = src[j].i + 1
                           /\ outcome.points[j].peak.index
                                < outcome.points[j + 1].peak.index
                  /\ src[j].block # src[j + 1].block => src[j + 1].i = 0
            /\ src # << >> => src[1].i = 0

\* C7: the points of a call are ordered Low blocks first, then High blocks,
\* the blocks of a channel in record order, the points of a block in the
\* detector's peak order with target 1, 2, ...
C7_PointsOrderedWithTargets ==
    /\ PointsOrdered
    /\ outcome.kind = "Ok" =>
          \A j \in 1..Len(outcome.points) :
              outcome.points[j].target = outcome.sources[j].i + 1

\* C8 as stated: once write_point has failed, convert is left at once and
\* what it returns is that error.
C8_ReturnsSinkError ==
    sinkFailed =>
        /\ pc \in {"drop", "done"}
        /\ result.kind # "Ok"
        /\ pc = "done" => result = ReturnErr(Error("Sdc", 0))

\* C8, amended: once write_point has failed, convert is left at once with
\* that error: no further point is written, no further record is read, and
\* the run does not return Ok; the error is what convert returns unless
\* fwifc_close fails while the File is dropped, and then the drop panics.
C8_SinkFailureEndsRun ==
    /\ [](sinkFailed =>
            /\ pc \in {"drop", "done"}
            /\ result \in {ReturnErr(Error("Sdc", 0)), Panicked}
            /\ pc = "drop" => result = ReturnErr(Error("Sdc", 0))
            /\ pc = "done" =>
                  (result = Panicked <=> closes # << 0 >>))
    /\ [][sinkFailed' =>
            /\ sink' = sink
            /\ pending' = pending
            /\ reads' = reads
            /\ readLog' = readLog
            /\ cursor' = cursor]_vars

C8_Witness ==
    /\ sinkFailed
    /\ pc = "done"
    /\ result = ReturnErr(Error("Sdc", 0))
    /\ sink # << >>
    /\ Len(pending) >= 2
    /\ cursor <= Len(nativeFile.records)

\* C9 as stated: next returns None on EndOfFile and Some(record) on every
\* successful read; convert then ends with Ok(()); no other read error ends
\* the run normally.
C9_EndOfFileEndsWithOk ==
    /\ \A k \in 1..Len(reads) :
          (reads[k] = 0 /\ ReadBlocks(nativeFile.records[k]).ok)
              => (k <= Len(readLog) /\ readLog[k] = RecordAt(k))
    /\ reads # << >> =>
          /\ Last(reads) = -1 =>
                /\ pc \in {"drop", "done"}
                /\ pc = "done" => result = ReturnOk
          /\ Last(reads) \in FailureCodes => result.kind \in {"Panic", "Abort"}
    /\ result = ReturnOk => (reads # << >> /\ Last(reads) = -1)

\* C9, amended: as stated, with two exceptions.  On EndOfFile next returns
\* None unless last_error panics while read builds the EndOfFile error; and
\* convert then ends with Ok(()) unless fwifc_close fails when the File is
\* dropped, and then the drop panics.
C9_EndOfFileEndsIteration ==
    /\ \A k \in 1..Len(reads) :
          (reads[k] = 0 /\ ReadBlocks(nativeFile.records[k]).ok)
              => (k <= Len(readLog) /\ readLog[k] = RecordAt(k))
    /\ reads # << >> =>
          /\ Last(reads) = -1 =>
                /\ pc \in {"drop", "done"}
                /\ lastErrorFailed => result.kind \in {"Panic", "Abort"}
                /\ (~lastErrorFailed /\ pc = "drop") => result = ReturnOk
                /\ (~lastErrorFailed /\ pc = "done") =>
                      result = (IF closes = << 0 >> THEN ReturnOk
                                ELSE Panicked)
          /\ Last(reads) \in FailureCodes => result.kind \in {"Panic", "Abort"}
    /\ result = ReturnOk => (reads # << >> /\ Last(reads) = -1)

C9_Witness ==
    /\ pc = "done"
    /\ result = ReturnOk
    /\ Last(reads) = -1
    /\ Len(readLog) = 2
    /\ cursor = Len(nativeFile.records) + 1

\* C10: with exactly one Reference block whose detection yields exactly one
\* peak, discretize returns Ok (with a point list that may be empty).
C10_OkWithSingleReferencePeak ==
    (/\ outcome # NotCalled
     /\ ReferenceCount(record) = 1
     /\ Len(ReferencePeaks(record)) = 1)
    => outcome.kind = "Ok"

C10_Witness ==
    /\ outcome.kind = "Ok"
    /\ outcome.points = << >>
    /\ Len(record.blocks) = 1

\* The detector configurations, as the claim C11 words them.
HighConfiguration ==
    [width |-> 2, floor |-> 15, ceiling |-> 255,
     min_height_above_background |-> 5, max_kurtosis |-> 4,
     saturation |-> {}]
LowConfiguration(width, ceiling) ==
    [width |-> width, floor |-> 15, ceiling |-> ceiling,
     min_height_above_background |-> 5, max_kurtosis |-> 4,
     saturation |-> {255}]

\* C11: detection runs on High blocks with width 2, floor 15, ceiling 255,
\* min height above background 5.0 and max kurtosis 0.04; on the Reference
\* block with the same configuration; on every Low block with floor 15,
\* saturation 255 and (width, ceiling) = (3, 250) when the record holds no
\* High block, else (2, 255), wherever the High block sits.
C11_DetectorConfigurations ==
    /\ reference_detector = HighConfiguration
    /\ (outcome # NotCalled /\ ReferenceCount(record) = 1) =>
          LET b == CHOOSE c \in 1..Len(record.blocks) :
                      record.blocks[c].channel = "Reference"
              n == Len(detect_peaks(HighConfiguration,
                                    record.blocks[b].samples))
          IN  IF n = 1 THEN outcome.kind = "Ok"
              ELSE outcome = NeedSingleReferencePeak(n)
    /\ outcome.kind = "Ok" =>
          \A src \in {[block |-> outcome.sources[j].block,
                        detector |-> outcome.sources[j].detector,
                        peaks |-> outcome.sources[j].peaks] :
                           j \in 1..Len(outcome.sources)} :
              LET block == record.blocks[src.block]
              IN  /\ block.channel = "High" =>
                        src.detector = HighConfiguration
                  /\ block.channel = "Low" =>
                        src.detector = IF HasChannel(record, "High")
                                       THEN LowConfiguration(2, 255)
                                       ELSE LowConfiguration(3, 250)
                  /\ src.peaks = Len(detect_peaks(src.detector, block.samples))

C11_Witness ==
    /\ outcome.kind = "Ok"
    /\ \E j, k \in 1..Len(outcome.sources) :
          /\ record.blocks[outcome.sources[j].block].channel = "Low"
          /\ record.blocks[outcome.sources[k].block].channel = "High"
          /\ outcome.sources[j].block < outcome.sources[k].block
          /\ outcome.sources[j].detector.width = 2

Abs(x) == IF x >= 0 THEN x ELSE 0 - x

\* The Reference block of a record that has one.
ReferenceBlock(rec) ==
    rec.blocks[CHOOSE c \in 1..Len(rec.blocks) :
                  rec.blocks[c].channel = "Reference"]

\* peak_time = block.start_time + peak.index * sampling_time, for point j of
\* the outcome
PeakTime(j) ==
    record.blocks[outcome.sources[j].block].time_sosbl
    + outcome.points[j].peak.index * file_info.sampling_time

\* t_ref = reference_block.start_time + reference_peak.index * sampling_time
ReferenceTime ==
    ReferenceBlock(record).time_sosbl
    + ReferencePeaks(record)[1].index * file_info.sampling_time

\* C12: every point's range is (v_group / 2) * (peak_time - t_ref), to the
\* precision of the f32 it is stored in; a reference peak at index 10 and
\* peaks at indices 12 and 20 of a High block with the same start time give
\* ranges in ratio 2 : 10.
C12_RangeFormula ==
    outcome.kind = "Ok" =>
        /\ \A j \in 1..Len(outcome.points) :
              LET exact == (file_info.v_group \div 2)
                              * (PeakTime(j) - ReferenceTime)
              IN  Abs(outcome.points[j].range - exact)
                     <= Abs(exact) \div F32_SIGNIFICAND
        /\ \A j \in 1..Len(outcome.points) :
              (/\ outcome.points[j].peak.index = 12
               /\ ReferencePeaks(record)[1].index = 10
               /\ record.blocks[outcome.sources[j].block].time_sosbl
                     = ReferenceBlock(record).time_sosbl)
              => \A k \in 1..Len(outcome.points) :
                    (/\ outcome.points[k].peak.index = 20
                     /\ outcome.sources[j].block = outcome.sources[k].block)
                    => 10 * outcome.points[j].range
                          = 2 * outcome.points[k].range

C12_Witness ==
    /\ outcome.kind = "Ok"
    /\ ReferencePeaks(record)[1].index = 10
    /\ \E j, k \in 1..Len(outcome.points) :
          /\ outcome.sources[j].block = outcome.sources[k].block
          /\ record.blocks[outcome.sources[j].block].channel = "High"
          /\ record.blocks[outcome.sources[j].block].time_sosbl
                = ReferenceBlock(record).time_sosbl
          /\ outcome.points[j].peak.index = 12
          /\ outcome.points[k].peak.index = 20
          /\ outcome.points[j].range = 12
          /\ outcome.points[k].range = 60
    /\ \E j \in 1..Len(outcome.points) : outcome.points[j].range < 0

\* C13: every point's time is peak_time - record.time_sorg +
\* record.time_external; the reference time does not enter it.
C13_OutputTime ==
    outcome.kind = "Ok" =>
        \A j \in 1..Len(outcome.points) :
            outcome.points[j].time
               = PeakTime(j) - record.time_sorg + record.time_external

C13_Witness ==
    /\ outcome.kind = "Ok"
    /\ ReferenceTime # 0
    /\ record.time_sorg # 0
    /\ record.time_external # 0
    /\ \E j \in 1..Len(outcome.points) :
          /\ record.blocks[outcome.sources[j].block].time_sosbl
                # ReferenceBlock(record).time_sosbl
          /\ outcome.points[j].time = 8 - 5 + 100

\* C14: High blocks go to the high list and Low blocks to the low list, in
\* record order; Saturation and Reference blocks produce no point; every Low
\* and High block produces as many points as detection finds peaks in it, so
\* the points number the sum of the peak counts of the Low and High blocks.
C14_ClassificationAndPointCount ==
    outcome.kind = "Ok" =>
        LET src == outcome.sources
            OfLow(e) == record.blocks[e.block].channel = "Low"
            OfHigh(e) == record.blocks[e.block].channel = "High"
            InRecordOrder(list) ==
                \A j \in 1..(Len(list) - 1) : list[j].block <= list[j + 1].block
            Detected(b) ==
                LET block == record.blocks[b]
                IN  IF block.channel = "High"
                    THEN Len(detect_peaks(HighConfiguration, block.samples))
                    ELSE IF block.channel = "Low"
                    THEN Len(detect_peaks(
                                IF HasChannel(record, "High")
                                THEN LowConfiguration(2, 255)
                                ELSE LowConfiguration(3, 250),
                                block.samples))
                    ELSE 0
        IN  /\ \A j \in 1..Len(src) :
                  record.blocks[src[j].block].channel \in {"Low", "High"}
            /\ \A b \in 1..Len(record.blocks) :
                  Cardinality({j \in 1..Len(src) : src[j].block = b})
                     = Detected(b)
            /\ InRecordOrder(SelectSeq(src, OfLow))
            /\ InRecordOrder(SelectSeq(src, OfHigh))
            /\ Len(outcome.points) = Len(src)

C14_Witness ==
    /\ outcome.kind = "Ok"
    /\ Len(outcome.points) = 2
    /\ \E b \in 1..Len(record.blocks) :
          /\ record.blocks[b].channel = "Saturation"
          /\ record.blocks[b].samples = "double"
    /\ \E j \in 1..Len(outcome.sources) :
          record.blocks[outcome.sources[j].block].channel = "High"

\* C16 as stated: over reindex calls with no remove_index in between,
\* fwifc_reindex is invoked at most once.
C16_NativeReindexAtMostOnce ==
    ~indexRemoved => Len(reindexes) <= 1

\* C16, amended: a reindex call invokes fwifc_reindex exactly when the index
\* file does not exist at the call; made while it exists, the call invokes it
\* zero times and returns Ok.  With no remove_index in between, no call
\* follows a successful invocation with another one: fwifc_reindex succeeds
\* at most once, and only a failed invocation is repeated.
C16_ReindexOnlyWithoutIndex ==
    /\ [][(reindexCalls' = reindexCalls + 1 /\ indexExists)
          => (/\ reindexes' = reindexes
              /\ returned'.op = "reindex"
              /\ returned'.kind = "Ok"
              /\ indexExists')]_vars
    /\ [][(reindexCalls' = reindexCalls + 1 /\ ~indexExists)
          => Len(reindexes') = Len(reindexes) + 1]_vars
    /\ [](~indexRemoved =>
            \A k \in 1..(Len(reindexes) - 1) : ~reindexes[k])

C16_Witness ==
    /\ reindexCalls = 2
    /\ reindexes = << TRUE >>
    /\ ~indexRemoved
    /\ returned.op = "reindex"
    /\ returned.kind = "Ok"
    /\ returned.code = 0

\* The first channel code outside 0..3 of a native block list, 0 if none.
RECURSIVE FirstUnknown(_)
FirstUnknown(native_blocks) ==
    IF native_blocks = << >> THEN 0
    ELSE IF Head(native_blocks).channel \notin {0, 1, 2, 3}
         THEN Head(native_blocks).channel
         ELSE FirstUnknown(Tail(native_blocks))

\* The channel of a code in 0..3, as the claim C17 words it.
ChannelOfCode(n) ==
    CASE n = 0 -> "High" [] n = 1 -> "Low" [] n = 2 -> "Saturation"
      [] n = 3 -> "Reference"

\* C17: read converts every block's channel code, 0, 1, 2, 3 to High, Low,
\* Saturation, Reference; a native record with a code outside 0..3 makes read
\* return Err(InvalidChannel(code)) and no Record; no record read holds a
\* channel outside the four.
C17_ChannelsValidated ==
    /\ [](\A k \in 1..Len(readLog) : \A b \in 1..Len(readLog[k].blocks) :
            readLog[k].blocks[b].channel
               \in {"High", "Low", "Saturation", "Reference"})
    /\ []((returned.op = "read" /\ returned.code = 0) =>
            LET native == nativeFile.records[cursor - 1]
            IN  IF \E b \in 1..Len(native) :
                      native[b].channel \notin {0, 1, 2, 3}
                THEN /\ returned.kind = "Err"
                     /\ returned.error
                           = Error("InvalidChannel", FirstUnknown(native))
                ELSE /\ returned.kind = "Ok"
                     /\ current = Last(readLog)
                     /\ Len(current.blocks) = Len(native)
                     /\ \A b \in 1..Len(native) :
                           /\ current.blocks[b].channel
                                 = ChannelOfCode(native[b].channel)
                           /\ current.blocks[b].samples = native[b].samples)
    /\ [][(returned'.op = "read" /\ returned'.kind # "Ok")
          => (readLog' = readLog /\ current' = current)]_vars

C17_Witness ==
    /\ returned.op = "read"
    /\ returned.kind = "Err"
    /\ returned.error = Error("InvalidChannel", 7)
    /\ Len(readLog) = 1
    /\ cursor = 3

\* C18: tell returns 1 on a freshly opened file and one more for each
\* successful read since; a successful read moves the cursor by exactly one
\* and tell does not move it.
C18_TellCountsReads ==
    /\ []((/\ returned.op = "tell"
           /\ returned.kind = "Ok"
           /\ \A k \in 1..(cursor - 1) : ReadBlocks(nativeFile.records[k]).ok)
          => returned.value = 1 + Len(readLog))
    /\ [][(returned'.op = "read" /\ returned'.kind = "Ok")
          => (cursor' = cursor + 1 /\ Len(readLog') = Len(readLog) + 1)]_vars
    /\ [][returned'.op = "tell"
          => (cursor' = cursor /\ readLog' = readLog)]_vars

C18_Witness ==
    /\ returned.op = "tell"
    /\ returned.kind = "Ok"
    /\ returned.value = 3
    /\ Len(readLog) = 2
    /\ reindexes = << TRUE >>

\* C19: as_u16 is 0 for Amplitude(High), 1 for Amplitude(Low), 2 for
\* Range(High), 3 for Range(Low); for Saturation and Reference under either
\* kind it is Err(NoCalibrationTableForChannel(channel)), and File::calibration
\* returns that error.
C19_CalibrationTableIndex ==
    returned.op = "calibration" =>
        IF returned.channel \in {"Saturation", "Reference"}
        THEN /\ returned.kind = "Err"
             /\ returned.error.tag = "NoCalibrationTableForChannel"
             /\ returned.code = 0
        ELSE /\ returned.error.tag # "NoCalibrationTableForChannel"
             /\ returned.value =
                   (CASE returned.table = "Amplitude"
                           /\ returned.channel = "High" -> 0
                      [] returned.table = "Amplitude"
                           /\ returned.channel = "Low" -> 1
                      [] returned.table = "Range"
                           /\ returned.channel = "High" -> 2
                      [] returned.table = "Range"
                           /\ returned.channel = "Low" -> 3)

C19_Witness ==
    /\ returned.op = "calibration"
    /\ returned.kind = "Ok"
    /\ returned.table = "Range"
    /\ returned.channel = "Low"
    /\ returned.value = 3

\* The error of a non-zero code, as the claim C20 words it.
ErrorOfCode(code) ==
    CASE code = -1 -> Error("EndOfFile", 0)
      [] code = 1 -> Error("BadArg", 0)
      [] code = 2 -> Error("UnsupportedFormat", 0)
      [] code = 3 -> Error("MissingIndex", 0)
      [] code = 4 -> Error("UnknownException", 0)
      [] code = 5 -> Error("NotImplemented", 0)
      [] code = 6 -> Error("Runtime", 0)
      [] OTHER -> Error("UnknownCode", code)

\* C20 as stated: every non-zero code becomes its error value; from_i32(0)
\* panics; sdftry! takes exactly 0 for success.
C20_EveryCodeBecomesItsError ==
    /\ returned.code # 0 =>
          (returned.kind = "Err" /\ returned.error = ErrorOfCode(returned.code))
    /\ (returned.op = "from_i32" /\ returned.code = 0) =>
          returned.kind = "Panic"
    /\ (returned.op = "calibration" /\ returned.code = 0
        /\ returned.error.tag # "NoCalibrationTableForChannel") =>
          returned.kind = "Ok"

\* C20, amended: a non-zero code never becomes success; it becomes its error
\* value, unless last_error panics while from_i32 fetches the message (codes
\* -1 and 1..6), and then from_i32 panics; from_i32(0) panics; sdftry! takes
\* exactly 0 for success.
C20_NonZeroCodeNeverSucceeds ==
    /\ returned.code # 0 =>
          /\ returned.kind \in {"Err", "Panic"}
          /\ returned.kind = "Err" =>
                returned.error = ErrorOfCode(returned.code)
          /\ returned.kind = "Panic" =>
                (lastErrorFailed /\ returned.code \in {-1, 1, 2, 3, 4, 5, 6})
    /\ (returned.op = "from_i32" /\ returned.code = 0) =>
          returned.kind = "Panic"
    /\ (returned.op = "calibration" /\ returned.code = 0
        /\ returned.error.tag # "NoCalibrationTableForChannel") =>
          returned.kind = "Ok"

C20_Witness ==
    /\ returned.op = "calibration"
    /\ returned.code = 3
    /\ returned.kind = "Err"
    /\ returned.error = Error("MissingIndex", 0)

\* C21: indexed() tells whether the index file exists, on whichever File
\* value it is called: a successful fwifc_reindex leaves it true for every
\* File on the data file, a successful remove_index leaves it false, and the
\* reindex call that follows a successful remove_index invokes fwifc_reindex
\* again.
C21_IndexedReflectsIndexFile ==
    /\ [](returned.op = "indexed" =>
            returned.kind = IF indexExists THEN "True" ELSE "False")
    /\ []((returned.op = "indexed" /\ indexedBy # {}) =>
            returned.kind = "True")
    /\ [][(Len(reindexes') > Len(reindexes) /\ Last(reindexes'))
          => (indexExists' /\ indexedBy' = {caller'})]_vars
    /\ [][(returned'.op = "remove_index" /\ returned'.kind = "Ok")
          => (~indexExists' /\ indexedBy' = {})]_vars
    /\ [][(returned.op = "remove_index" /\ returned.kind = "Ok"
           /\ reindexCalls' = reindexCalls + 1)
          => Len(reindexes') = Len(reindexes) + 1]_vars

C21_Witness ==
    /\ returned.op = "indexed"
    /\ returned.kind = "True"
    /\ indexRemoved
    /\ indexedBy = {1}
    /\ caller = 2

\* C22: in File::convert the iterator reindexes before it reads: every
\* fwifc_read is issued with the index file in place (it was there, or
\* fwifc_reindex has just succeeded), and a failed fwifc_reindex ends the
\* run with no read issued, no record yielded and no point written.
C22_IndexBeforeFirstRead ==
    /\ [][reads' # reads => (indexExists /\ reindexCalls = 1)]_vars
    /\ [](~indexExists =>
            (reads = << >> /\ readLog = << >> /\ sink = << >>))
    /\ []((reindexes # << >> /\ ~Last(reindexes)) =>
            /\ ~indexExists
            /\ result.kind \in {"Panic", "Abort"}
            /\ pc \in {"drop", "done"})
    /\ []((reads # << >> /\ reindexes # << >>) => reindexes = << TRUE >>)

C22_Witness ==
    /\ reindexes = << TRUE >>
    /\ Len(reads) = 2
    /\ sink # << >>
    /\ pc = "next"

\* C23: in every point discretize returns, high_channel is true exactly when
\* the block the point came from is a High block and false exactly when it
\* is a Low block, so no point of the low channel follows a point of the
\* high channel.
C23_HighChannelFlag ==
    outcome.kind = "Ok" =>
        /\ \A j \in 1..Len(outcome.points) :
              LET channel ==
                      record.blocks[outcome.sources[j].block].channel
              IN  /\ channel \in {"High", "Low"}
                  /\ outcome.points[j].high_channel = TRUE
                        <=> channel = "High"
                  /\ outcome.points[j].high_channel = FALSE
                        <=> channel = "Low"
        /\ \A j \in 1..(Len(outcome.points) - 1) :
              outcome.points[j].high_channel
                 => outcome.points[j + 1].high_channel

C23_Witness ==
    /\ outcome.kind = "Ok"
    /\ Len(outcome.points) = 3
    /\ ~outcome.points[1].high_channel
    /\ outcome.points[2].high_channel
    /\ outcome.points[3].high_channel
    /\ outcome.sources[2].block < outcome.sources[1].block

RECURSIVE Discretized(_, _)
\* The points discretize returns for the records of `log`, in order.
Discretized(log, fi) ==
    IF log = << >> THEN << >>
    ELSE LET r == discretize(Head(log), fi)
         IN  (IF r.kind = "Ok" THEN r.points ELSE << >>)
             \o Discretized(Tail(log), fi)

\* C24: every point of a record carries the record's facet through
\* discretize; the facet_number File::convert writes is that facet modulo
\* 256, equal to the facet exactly when the facet is below 256; target,
\* num_target and high_channel reach the sink as discretize set them.
C24_FacetReducedToU8 ==
    LET points == Discretized(readLog, info)
    IN  /\ \A k \in 1..Len(readLog) :
              /\ readLog[k].facet = nativeFile.acquisition.header.facet
              /\ LET r == discretize(readLog[k], info)
                 IN  \A j \in 1..Len(r.points) :
                        r.points[j].facet = readLog[k].facet
        /\ Len(sink) <= Len(points)
        /\ \A k \in 1..Len(sink) :
              /\ sink[k].facet_number = points[k].facet % 256
              /\ sink[k].facet_number = points[k].facet
                    <=> points[k].facet < 256
              /\ sink[k].target = points[k].target
              /\ sink[k].num_target = points[k].num_target
              /\ sink[k].high_channel = points[k].high_channel

C24_Witness ==
    /\ nativeFile.acquisition.header.facet = 300
    /\ Len(readLog) = 2
    /\ Len(sink) >= 2
    /\ sink[1].facet_number = 44
    /\ ~sink[1].high_channel
    /\ Last(sink).high_channel
    /\ Last(sink).target = 2
    /\ Last(sink).num_target = 2

====
